---- MODULE Spec2Model ----
(***************************************************************************)
(* Model of wrangler's Workers KV command helpers                          *)
(* (src/src/commands/kv/mod.rs): get_namespace_id, validate_target,        *)
(* interactive_delete, url_encode_key and format_error.                    *)
(*                                                                         *)
(* One behaviour is one command invocation: Init draws the function that   *)
(* is called together with its arguments, the matching action runs the     *)
(* whole function and records its result in `ret` and whatever it wrote to *)
(* the terminal in `stdout`.                                               *)
(*                                                                         *)
(* Strings that the code only compares or copies are TLA+ strings.         *)
(* Strings that the code takes apart (the confirmation response, the key   *)
(* to encode) are sequences of Unicode code points, with their UTF-8       *)
(* bytes computed where the code works on bytes.  Formatted text is a      *)
(* sequence of fragments, a line break being the fragment "\n".            *)
(***************************************************************************)
EXTENDS Integers, Sequences, FiniteSets, TLC

VARIABLES pc, call, ret, stdout

vars == <<pc, call, ret, stdout>>

(***************************************************************************)
(* Bounds of the explored inputs.                                          *)
(***************************************************************************)
MaxBindings == 3
MaxLineLen == 3
MaxKeyLen == 3
MaxProbeLen == 2
MaxErrors == 2

\* All sequences over S of length at most n.
SeqsUpTo(S, n) == UNION {[1..k -> S] : k \in 0..n}

(***************************************************************************)
(* Result<T, failure::Error>, and a panic (unwinding out of the call).     *)
(* An error made by failure::bail!(fmt, args...) keeps its format string   *)
(* and its arguments apart.                                                *)
(***************************************************************************)
Ok(v) == [tag |-> "Ok", val |-> v]
Err(fmt, args) == [tag |-> "Err", fmt |-> fmt, args |-> args]
Panic == [tag |-> "Panic"]
Pending == [tag |-> "Pending"]

(***************************************************************************)
(* Target and KvNamespace (crate::settings::target), the fields read here. *)
(* kv_namespaces is an Option<Vec<KvNamespace>>.                           *)
(***************************************************************************)
None == [is_some |-> FALSE, val |-> <<>>]
Some(v) == [is_some |-> TRUE, val |-> v]

BindingNames == {"", "KV", "OTHER"}
RequestedNames == BindingNames \cup {"MISSING"}
NamespaceIds == {"fake", "id2"}
TargetNames == {"test-target"}
AccountIds == {"", "acct"}

KvNamespace == [id : NamespaceIds, binding : BindingNames]

Target == [name : TargetNames,
           account_id : AccountIds,
           kv_namespaces : {None} \cup {Some(v) : v \in SeqsUpTo(KvNamespace, MaxBindings)}]

(***************************************************************************)
(* check_duplicate_namespaces: walks the list with a HashSet of the names  *)
(* seen so far and returns true at the first name already in the set.      *)
(***************************************************************************)
RECURSIVE DuplicateScan(_, _, _)
DuplicateScan(namespaces, i, binding_names) ==
    IF i > Len(namespaces) THEN FALSE
    ELSE IF namespaces[i].binding \in binding_names THEN TRUE
    ELSE DuplicateScan(namespaces, i + 1, binding_names \cup {namespaces[i].binding})

check_duplicate_namespaces_never(target) == FALSE

check_duplicate_namespaces(target) ==
    IF target.kv_namespaces.is_some
    THEN DuplicateScan(target.kv_namespaces.val, 1, {})
    ELSE FALSE

(***************************************************************************)
(* The lookup loop of get_namespace_id: the id of the first entry whose    *)
(* binding equals the requested one, or no result.                         *)
(***************************************************************************)
NoMatch == [found |-> FALSE, id |-> ""]

RECURSIVE LookupScan(_, _, _)
LookupScan(namespaces, i, binding) ==
    IF i > Len(namespaces) THEN NoMatch
    ELSE IF namespaces[i].binding = binding
         THEN [found |-> TRUE, id |-> namespaces[i].id]
         ELSE LookupScan(namespaces, i + 1, binding)

lookup_namespace_skip_first(target, binding) ==
    IF target.kv_namespaces.is_some
    THEN LookupScan(target.kv_namespaces.val, 2, binding)
    ELSE NoMatch

lookup_namespace(target, binding) ==
    IF target.kv_namespaces.is_some
    THEN LookupScan(target.kv_namespaces.val, 1, binding)
    ELSE NoMatch

DuplicatedFmt == "Namespace binding \"{}\" is duplicated in \"{}\""
NotFoundFmt == "Namespace binding \"{}\" not found in \"{}\""

get_namespace_id_default(target, binding) ==
    IF check_duplicate_namespaces(target)
    THEN Err(DuplicatedFmt, <<binding, target.name>>)
    ELSE IF lookup_namespace(target, binding).found
         THEN Ok(lookup_namespace(target, binding).id)
         ELSE Ok("")

get_namespace_id(target, binding) ==
    IF check_duplicate_namespaces(target)
    THEN Err(DuplicatedFmt, <<binding, target.name>>)
    ELSE IF lookup_namespace(target, binding).found
         THEN Ok(lookup_namespace(target, binding).id)
         ELSE Err(NotFoundFmt, <<binding, target.name>>)

(***************************************************************************)
(* validate_target: collects the names of the missing required fields.     *)
(***************************************************************************)
MissingFieldsFmt == "Your wrangler.toml is missing the following field(s): {:?}"

validate_target_inverted(target) ==
    LET missing_fields == IF target.account_id # "" THEN <<"account_id">> ELSE <<>>
    IN  IF missing_fields # <<>>
        THEN Err(MissingFieldsFmt, <<missing_fields>>)
        ELSE Ok(<<>>)

validate_target(target) ==
    LET missing_fields == IF target.account_id = "" THEN <<"account_id">> ELSE <<>>
    IN  IF missing_fields # <<>>
        THEN Err(MissingFieldsFmt, <<missing_fields>>)
        ELSE Ok(<<>>)

(***************************************************************************)
(* Text as Unicode code points and as UTF-8 bytes.                         *)
(***************************************************************************)
\* The UTF-8 encoding of one code point (str::as_bytes, per char).
Utf8Bytes(c) ==
    IF c < 128 THEN <<c>>
    ELSE IF c < 2048 THEN <<192 + (c \div 64), 128 + (c % 64)>>
    ELSE IF c < 65536
         THEN <<224 + (c \div 4096), 128 + ((c \div 64) % 64), 128 + (c % 64)>>
         ELSE <<240 + (c \div 262144), 128 + ((c \div 4096) % 64),
                128 + ((c \div 64) % 64), 128 + (c % 64)>>

RECURSIVE as_bytes(_)
as_bytes(s) == IF s = <<>> THEN <<>> ELSE Utf8Bytes(Head(s)) \o as_bytes(Tail(s))

\* char::is_whitespace: the code points with the White_Space property.
is_whitespace(c) ==
    c \in (9..13) \cup {32, 133, 160, 5760} \cup (8192..8202)
          \cup {8232, 8233, 8239, 8287, 12288}

\* u8::to_ascii_lowercase on a char: only 'A'..'Z' change.
to_ascii_lowercase(c) == IF c \in 65..90 THEN c + 32 ELSE c

(***************************************************************************)
(* interactive_delete.  `line` is what read!("{}\n") took from stdin.      *)
(***************************************************************************)
INTERACTIVE_RESPONSE_LEN == 1
YES == <<121>>
NO == <<110>>
ResponseFmt == "Response must either be \"y\" for yes or \"n\" for no"

\* response.split_whitespace().collect()
remove_whitespace(s) == SelectSeq(s, LAMBDA c : ~is_whitespace(c))

\* response.make_ascii_lowercase()
make_ascii_lowercase(s) == [i \in 1..Len(s) |-> to_ascii_lowercase(s[i])]

\* The longest prefix of s whose UTF-8 encoding has at most new_len bytes.
RECURSIVE PrefixWithin(_, _)
PrefixWithin(s, new_len) ==
    IF s = <<>> \/ Len(Utf8Bytes(Head(s))) > new_len THEN <<>>
    ELSE <<Head(s)>> \o PrefixWithin(Tail(s), new_len - Len(Utf8Bytes(Head(s))))

\* String::truncate(new_len): no effect when new_len exceeds the byte length,
\* a panic when new_len is not on a char boundary, else the prefix.
truncate(s, new_len) ==
    IF new_len > Len(as_bytes(s)) THEN Ok(s)
    ELSE IF Len(as_bytes(PrefixWithin(s, new_len))) # new_len THEN Panic
    ELSE Ok(PrefixWithin(s, new_len))

interactive_delete(prompt_string, line) ==
    LET response == truncate(make_ascii_lowercase(remove_whitespace(line)),
                             INTERACTIVE_RESPONSE_LEN)
    IN  [out |-> << <<prompt_string, " [y/n]">> >>,
         ret |-> IF response.tag = "Panic" THEN Panic
                 ELSE IF response.val = YES THEN Ok(TRUE)
                 ELSE IF response.val = NO THEN Ok(FALSE)
                 ELSE Err(ResponseFmt, <<>>)]

(***************************************************************************)
(* url_encode_key: percent_encode(key.as_bytes(), PATH_SEGMENT_ENCODE_SET).*)
(***************************************************************************)
\* SIMPLE_ENCODE_SET (outside 0x20..0x7E), plus the additions of
\* QUERY_ENCODE_SET (space, double quote, #, <, >), DEFAULT_ENCODE_SET
\* (backtick, ?, {, }) and PATH_SEGMENT_ENCODE_SET (%, /).
PATH_SEGMENT_ENCODE_SET_no_percent(byte) ==
    \/ byte < 32 \/ byte > 126
    \/ byte \in {32, 34, 35, 60, 62}
    \/ byte \in {96, 63, 123, 125}
    \/ byte \in {47}

PATH_SEGMENT_ENCODE_SET(byte) ==
    \/ byte < 32 \/ byte > 126
    \/ byte \in {32, 34, 35, 60, 62}
    \/ byte \in {96, 63, 123, 125}
    \/ byte \in {37, 47}

\* ASCII code of the upper-case hexadecimal digit d.
HexDigit(d) == IF d < 10 THEN 48 + d ELSE 55 + d

percent_encode_byte(byte) ==
    IF PATH_SEGMENT_ENCODE_SET(byte)
    THEN <<37, HexDigit(byte \div 16), HexDigit(byte % 16)>>
    ELSE <<byte>>

RECURSIVE percent_encode(_)
percent_encode(bytes) ==
    IF bytes = <<>> THEN <<>>
    ELSE percent_encode_byte(Head(bytes)) \o percent_encode(Tail(bytes))

url_encode_key(key) == percent_encode(as_bytes(key))

(***************************************************************************)
(* format_error, with the helpers it calls.                                *)
(***************************************************************************)
\* crate::terminal::emoji
WARN == "emoji::WARN"
SLEUTH == "emoji::SLEUTH"

\* crate::terminal::message::warn: one styled line on the terminal.
message_warn(msg) == << <<WARN, " ", msg>> >>

PAYLOAD_TOO_LARGE == 413
GATEWAY_TIMEOUT == 504
PayloadTooLargeText ==
    "Returned status code 413, Payload Too Large. Please make sure your upload is less than 100MB in size"
GatewayTimeoutText ==
    "Returned status code 504, Gateway Timeout. Please try again in a few seconds"

\* The lines print_status_code_context writes to the terminal.
print_status_code_context_no_timeout(status_code) ==
    IF status_code = PAYLOAD_TOO_LARGE THEN message_warn(PayloadTooLargeText)
    ELSE <<>>

print_status_code_context_always(status_code) ==
    IF status_code = PAYLOAD_TOO_LARGE THEN message_warn(PayloadTooLargeText)
    ELSE message_warn(GatewayTimeoutText)

print_status_code_context(status_code) ==
    IF status_code = PAYLOAD_TOO_LARGE THEN message_warn(PayloadTooLargeText)
    ELSE IF status_code = GATEWAY_TIMEOUT THEN message_warn(GatewayTimeoutText)
    ELSE <<>>

\* (the backticks of the source text are written as single quotes)
help(error_code) ==
    IF error_code \in {7003, 7000}
    THEN "Your wrangler.toml is likely missing the field \"account_id\", which is required to write to Workers KV."
    ELSE IF error_code \in {10010, 10011, 10012, 10013, 10014, 10018}
    THEN "Run 'wrangler kv:namespace list' to see your existing namespaces with IDs"
    ELSE IF error_code = 10009
    THEN "Run 'wrangler kv:key list' to see your existing keys"
    ELSE IF error_code \in {10022, 10024, 10030}
    THEN "See documentation"
    ELSE IF error_code \in {10021, 10035, 10038}
    THEN "Consider moving this namespace"
    ELSE IF error_code \in {10017, 10026}
    THEN "Workers KV is a paid feature, please upgrade your account (https://www.cloudflare.com/products/workers-kv/)"
    ELSE ""

\* What one iteration of the loop over api_errors.errors pushes.
error_block_no_help(error) ==
    <<WARN, " Error ", ToString(error.code), ": ">> \o error.message \o <<"\n">>

error_block(error) ==
    LET error_msg == <<WARN, " Error ", ToString(error.code), ": ">>
                        \o error.message \o <<"\n">>
        suggestion == help(error.code)
    IN  IF suggestion # ""
        THEN error_msg \o <<SLEUTH, " ", suggestion, "\n">>
        ELSE error_msg

RECURSIVE ErrorLoop(_, _)
ErrorLoop(errors, complete_err) ==
    IF errors = <<>> THEN complete_err
    ELSE ErrorLoop(Tail(errors), complete_err \o error_block(Head(errors)))

format_error(e) ==
    IF e.variant = "Error"
    THEN [out |-> print_status_code_context(e.status),
          ret |-> ErrorLoop(e.errors, <<>>)]
    ELSE [out |-> <<>>,
          ret |-> <<WARN, " Error: ", e.reqwest_err>>]

(***************************************************************************)
(* The calls explored.                                                     *)
(***************************************************************************)
Prompts == {"Are you sure you want to delete this key?"}
LineChars == {121, 89, 110, 78, 109, 32, 233, 160}
ExampleLines == {<<32, 89, 69, 83, 32>>, <<121, 117, 112>>, <<78, 79>>,
                 <<109, 97, 121, 98, 101>>, <<>>}
Lines == SeqsUpTo(LineChars, MaxLineLen) \cup ExampleLines

KeyChars == {47, 37, 32, 97, 50, 70, 233, 8364}
Keys == SeqsUpTo(KeyChars, MaxKeyLen)

StatusCodes == {400, 404, PAYLOAD_TOO_LARGE, GATEWAY_TIMEOUT}
ErrorCodes == {7003, 10010, 10009, 10022, 10021, 10017, 1000}
Messages == {<<"key not found">>, <<"first line", "\n", "second line">>}
ApiError == [code : ErrorCodes, message : Messages]
ReqwestErrors == {"operation timed out"}
ApiFailure ==
    {[variant |-> "Error", status |-> st, errors |-> es] :
        st \in StatusCodes, es \in SeqsUpTo(ApiError, MaxErrors)}
    \cup {[variant |-> "Invalid", reqwest_err |-> r] : r \in ReqwestErrors}

Calls ==
    {[fn |-> "get_namespace_id", target |-> t, binding |-> b] :
        t \in Target, b \in RequestedNames}
    \cup {[fn |-> "validate_target", target |-> t] : t \in Target}
    \cup {[fn |-> "interactive_delete", prompt_string |-> p, line |-> l] :
        p \in Prompts, l \in Lines}
    \cup {[fn |-> "url_encode_key", key |-> k] : k \in Keys}
    \cup {[fn |-> "format_error", e |-> e] : e \in ApiFailure}

(***************************************************************************)
(* The state machine: one call per invocation.                             *)
(***************************************************************************)
Init ==
    /\ pc = "ready"
    /\ call \in Calls
    /\ ret = Pending
    /\ stdout = <<>>

GetNamespaceId ==
    /\ pc = "ready" /\ call.fn = "get_namespace_id"
    /\ ret' = get_namespace_id(call.target, call.binding)
    /\ pc' = "done"
    /\ UNCHANGED <<call, stdout>>

ValidateTarget ==
    /\ pc = "ready" /\ call.fn = "validate_target"
    /\ ret' = validate_target(call.target)
    /\ pc' = "done"
    /\ UNCHANGED <<call, stdout>>

InteractiveDelete ==
    /\ pc = "ready" /\ call.fn = "interactive_delete"
    /\ ret' = interactive_delete(call.prompt_string, call.line).ret
    /\ stdout' = stdout \o interactive_delete(call.prompt_string, call.line).out
    /\ pc' = "done"
    /\ UNCHANGED call

UrlEncodeKey ==
    /\ pc = "ready" /\ call.fn = "url_encode_key"
    /\ ret' = url_encode_key(call.key)
    /\ pc' = "done"
    /\ UNCHANGED <<call, stdout>>

FormatError ==
    /\ pc = "ready" /\ call.fn = "format_error"
    /\ ret' = format_error(call.e).ret
    /\ stdout' = stdout \o format_error(call.e).out
    /\ pc' = "done"
    /\ UNCHANGED call

Next ==
    \/ GetNamespaceId
    \/ ValidateTarget
    \/ InteractiveDelete
    \/ UrlEncodeKey
    \/ FormatError

Spec == Init /\ [][Next]_vars

(***************************************************************************)
(* Vocabulary of the properties.                                           *)
(***************************************************************************)
Done(f) == pc = "done" /\ call.fn = f

Entries(target) ==
    IF target.kv_namespaces.is_some THEN target.kv_namespaces.val ELSE <<>>

\* Two entries of the target carry the same binding name.
HasDuplicate(target) ==
    \E i, j \in 1..Len(Entries(target)) :
        i # j /\ Entries(target)[i].binding = Entries(target)[j].binding

\* The names carried by two different entries.
RepeatedNames(target) ==
    {Entries(target)[i].binding : i \in
        {k \in 1..Len(Entries(target)) :
            \E j \in 1..Len(Entries(target)) :
                j # k /\ Entries(target)[j].binding = Entries(target)[k].binding}}

HasBinding(target, b) ==
    \E i \in 1..Len(Entries(target)) : Entries(target)[i].binding = b

Range(s) == {s[i] : i \in 1..Len(s)}

\* Number of line terminators in a text.
LineCount(text) == Cardinality({i \in 1..Len(text) : text[i] = "\n"})

\* The fragments that directly follow an occurrence of `marker`, in order.
Following(text, marker) ==
    LET At(i) == i < Len(text) /\ text[i] = marker
        idx == {i \in 1..Len(text) : At(i)}
        Nth(k) == CHOOSE i \in idx : Cardinality({j \in idx : j < i}) = k - 1
    IN  [k \in 1..Cardinality(idx) |-> text[Nth(k) + 1]]

\* The fragment two places after each occurrence of `marker`, in order.
SecondAfter(text, marker) ==
    LET idx == {i \in 1..Len(text) : i + 1 < Len(text) /\ text[i] = marker}
        Nth(k) == CHOOSE i \in idx : Cardinality({j \in idx : j < i}) = k - 1
    IN  [k \in 1..Cardinality(idx) |-> text[Nth(k) + 2]]

\* Number of line breaks inside the messages of the errors.
RECURSIVE MessageBreaks(_)
MessageBreaks(errors) ==
    IF errors = <<>> THEN 0
    ELSE LineCount(Head(errors).message) + MessageBreaks(Tail(errors))

Mapped(errors) == SelectSeq(errors, LAMBDA error : help(error.code) # "")

\* percent_decode of the percent_encoding crate: "%XY" with two hexadecimal
\* digits is one byte, every other byte stands for itself.
IsHex(b) == b \in (48..57) \cup (65..70) \cup (97..102)
HexVal(b) == IF b \in 48..57 THEN b - 48 ELSE IF b \in 65..70 THEN b - 55 ELSE b - 87

RECURSIVE percent_decode(_)
percent_decode(s) ==
    IF s = <<>> THEN <<>>
    ELSE IF Head(s) = 37 /\ Len(s) >= 3 /\ IsHex(s[2]) /\ IsHex(s[3])
         THEN <<16 * HexVal(s[2]) + HexVal(s[3])>> \o percent_decode(SubSeq(s, 4, Len(s)))
         ELSE <<Head(s)>> \o percent_decode(Tail(s))

ProbeKeys == SeqsUpTo(KeyChars, MaxProbeLen)
ProbeEncoding == [k \in ProbeKeys |-> url_encode_key(k)]

(***************************************************************************)
(* Properties.                                                             *)
(***************************************************************************)

\* C1: when two entries of the target share a binding name, get_namespace_id
\* returns an error for every requested name and never an id.
C1_DuplicateAlwaysFails ==
    (Done("get_namespace_id") /\ HasDuplicate(call.target)) => ret.tag = "Err"

C1_Witness ==
    /\ Done("get_namespace_id")
    /\ HasDuplicate(call.target)
    /\ HasBinding(call.target, "OTHER")
    /\ "OTHER" \notin RepeatedNames(call.target)
    /\ call.binding = "MISSING"
    /\ ret.tag = "Err"

\* C2: with pairwise distinct binding names, requesting the name of an entry
\* returns exactly that entry's id, wherever the entry stands in the list.
C2_DistinctResolves ==
    (Done("get_namespace_id") /\ ~HasDuplicate(call.target)) =>
        \A i \in 1..Len(Entries(call.target)) :
            Entries(call.target)[i].binding = call.binding =>
                ret = Ok(Entries(call.target)[i].id)

C2_Witness ==
    /\ Done("get_namespace_id")
    /\ ~HasDuplicate(call.target)
    /\ Len(Entries(call.target)) = 3
    /\ Entries(call.target)[3].binding = call.binding
    /\ Entries(call.target)[3].id = "id2"
    /\ Entries(call.target)[1].id = "fake"
    /\ ret = Ok("id2")

\* C3 as stated: whenever the target has no entry named B, get_namespace_id
\* fails with the not-found error naming B and the target.
C3_MissingIsNotFound ==
    (Done("get_namespace_id") /\ ~HasBinding(call.target, call.binding)) =>
        ret = Err(NotFoundFmt, <<call.binding, call.target.name>>)

\* C3 amended: whenever the target has pairwise distinct binding names and
\* no entry named B (list absent or empty included), get_namespace_id fails
\* with the not-found error naming B and the target; whenever the target has
\* no entry named B it fails and returns no id.
C3_MissingDistinctIsNotFound ==
    (Done("get_namespace_id") /\ ~HasBinding(call.target, call.binding)) =>
        /\ ret.tag = "Err"
        /\ ~HasDuplicate(call.target) =>
               ret = Err(NotFoundFmt, <<call.binding, call.target.name>>)

C3_Witness ==
    /\ Done("get_namespace_id")
    /\ Len(Entries(call.target)) = 2
    /\ ~HasDuplicate(call.target)
    /\ ~HasBinding(call.target, call.binding)
    /\ ret.tag = "Err" /\ ret.fmt = NotFoundFmt

\* C4: validate_target fails listing "account_id" exactly when account_id is
\* empty and succeeds otherwise, whatever the namespace bindings are.
C4_ValidateAccountId ==
    Done("validate_target") =>
        /\ (ret.tag = "Err" /\ "account_id" \in Range(ret.args[1]))
              <=> call.target.account_id = ""
        /\ call.target.account_id # "" => ret = Ok(<<>>)

C4_Witness ==
    /\ Done("validate_target")
    /\ call.target.account_id # ""
    /\ HasDuplicate(call.target)
    /\ ret.tag = "Ok"

\* C5: for every input line, with all whitespace removed and the rest
\* lowercased, interactive_delete returns Ok(true) when the first remaining
\* character is "y", Ok(false) when it is "n" and the InputError otherwise.
C5_ConfirmationOutcome ==
    Done("interactive_delete") =>
        LET rest == make_ascii_lowercase(remove_whitespace(call.line))
        IN  IF rest # <<>> /\ rest[1] = 121 THEN ret = Ok(TRUE)
            ELSE IF rest # <<>> /\ rest[1] = 110 THEN ret = Ok(FALSE)
            ELSE ret = Err(ResponseFmt, <<>>)

\* C6 as stated: the text for a failure carrying n errors has exactly n lines
\* (taken here for messages that contain no line break of their own).
C6_OneLinePerError ==
    (Done("format_error") /\ call.e.variant = "Error"
        /\ MessageBreaks(call.e.errors) = 0) =>
        LineCount(ret) = Len(call.e.errors)

\* C6 amended: the text holds, in the order of the sequence, one line per
\* error with its code and message, followed, exactly when the code is in
\* the advisory table, by a second line with the advisory; its line count is
\* n plus the number of errors whose code is in the table (plus the line
\* breaks inside the messages).
C6_LinesPerError ==
    (Done("format_error") /\ call.e.variant = "Error") =>
        LET errors == call.e.errors
        IN  /\ LineCount(ret)
                 = Len(errors) + Len(Mapped(errors)) + MessageBreaks(errors)
            /\ Following(ret, " Error ")
                 = [k \in 1..Len(errors) |-> ToString(errors[k].code)]
            /\ SecondAfter(ret, SLEUTH)
                 = [k \in 1..Len(Mapped(errors)) |-> help(Mapped(errors)[k].code)]
            /\ \A i \in 1..Len(ret) :
                 ret[i] = SLEUTH => (i > 1 /\ ret[i - 1] = "\n")

C6_Witness ==
    /\ Done("format_error") /\ call.e.variant = "Error"
    /\ Len(call.e.errors) = 2
    /\ call.e.errors[1].code = 1000 /\ call.e.errors[2].code = 7003
    /\ call.e.errors[1].message # call.e.errors[2].message
    /\ LineCount(ret) = 4

\* C7 as stated: for status 413 the returned string includes the
\* payload-size advisory text.
C7_AdvisoryInReturnedText ==
    (Done("format_error") /\ call.e.variant = "Error"
        /\ call.e.status = PAYLOAD_TOO_LARGE) =>
        PayloadTooLargeText \in Range(ret)

\* C7 amended: for status 413 (and 504 likewise) format_error issues the
\* fixed advisory as one warning on the terminal, whatever the error
\* sequence is; the returned string does not include the advisory text.
C7_AdvisoryOnTerminal ==
    (Done("format_error") /\ call.e.variant = "Error") =>
        /\ call.e.status = PAYLOAD_TOO_LARGE =>
              stdout = << <<WARN, " ", PayloadTooLargeText>> >>
        /\ call.e.status = GATEWAY_TIMEOUT =>
              stdout = << <<WARN, " ", GatewayTimeoutText>> >>
        /\ PayloadTooLargeText \notin Range(ret)
        /\ GatewayTimeoutText \notin Range(ret)

C7_Witness ==
    /\ Done("format_error") /\ call.e.variant = "Error"
    /\ call.e.status = GATEWAY_TIMEOUT
    /\ call.e.errors = <<>>
    /\ ret = <<>>
    /\ Len(stdout) = 1

\* C8: url_encode_key(key) has no literal "/", percent-decoding it gives
\* back the bytes of the key, and no other key has the same encoding.
C8_EncodeRoundTrip ==
    Done("url_encode_key") =>
        /\ 47 \notin Range(ret)
        /\ percent_decode(ret) = as_bytes(call.key)
        /\ \A k \in ProbeKeys : ProbeEncoding[k] = ret => k = call.key

C8_Witness ==
    /\ Done("url_encode_key")
    /\ call.key = <<37, 50, 70>>
    /\ ret = <<37, 50, 53, 50, 70>>

\* C9: the duplicate-binding error names a binding name that is repeated in
\* the target, and the target name, for every requested binding name.
C9_DuplicateNamesOffender ==
    (Done("get_namespace_id") /\ HasDuplicate(call.target)) =>
        /\ ret.tag = "Err" /\ ret.fmt = DuplicatedFmt
        /\ ret.args[1] \in RepeatedNames(call.target)
        /\ ret.args[2] = call.target.name

\* C10 as stated: format_error writes nothing to the terminal and changes no
\* state; it only returns its string.
C10_NoTerminalOutput ==
    [][(pc = "ready" /\ call.fn = "format_error") =>
          (stdout' = stdout /\ call' = call /\ pc' = "done")]_vars

\* C10 amended: format_error always returns a string and changes no other
\* state, and it writes to the terminal exactly when the failure is
\* structured with status 413 or 504 (one warning line); for every other
\* status and for a transport-level failure it performs no output.
C10_OutputOnlyForGatewayStatus ==
    [][(pc = "ready" /\ call.fn = "format_error") =>
          /\ call' = call /\ pc' = "done"
          /\ Range(ret') \subseteq STRING
          /\ IF call.e.variant = "Error"
                /\ call.e.status \in {PAYLOAD_TOO_LARGE, GATEWAY_TIMEOUT}
             THEN Len(stdout') = Len(stdout) + 1
             ELSE stdout' = stdout]_vars

C10_Witness ==
    /\ Done("format_error") /\ call.e.variant = "Error"
    /\ call.e.status = 404
    /\ Len(call.e.errors) = 2
    /\ stdout = <<>>

====
